---- MODULE Spec2Model ----
(***************************************************************************)
(* Model of the TicTacToe WebSocket server (src/server/server_websocket.py *)
(* and src/server/tictactoe_game.py).                                      *)
(*                                                                         *)
(* The server is a single asyncio event loop.  A coroutine runs without    *)
(* interruption until it suspends: on websocket.recv(), on                 *)
(* websocket.send(), on websocket.close(), on asyncio.sleep(), or on       *)
(* STATE_LOCK.acquire() when the lock is held.  Every action below is one  *)
(* such uninterrupted run of one task.                                     *)
(***************************************************************************)
EXTENDS Integers, Sequences, FiniteSets, TLC

(***************************************************************************)
(* Bounds of the model.                                                    *)
(***************************************************************************)
MaxConns == 2      \* websocket connections ever accepted
MaxGames == 2      \* game ids ever generated by handle_create_game
MaxMsgs  == 4      \* inbound frames that are not rejected at once
MaxTicks == 1      \* broadcasts of the periodic task

Conns    == 1..MaxConns
Periodic == MaxConns + 1           \* the periodic_broadcast_available_games task
Tasks    == 1..(MaxConns + 1)
GameIds  == 1..MaxGames
ClientIds == {"A", "B"}
NoGame   == 0                      \* Python None as a current_game / game_id

(***************************************************************************)
(* JSON values of an inbound frame, as json.loads produces them.           *)
(***************************************************************************)
JInt(k) == [t |-> "int", i |-> k, s |-> ""]
JStr(str) == [t |-> "str", i |-> 0, s |-> str]
JNull == [t |-> "null", i |-> 0, s |-> ""]

\* Python truthiness of a JSON value: None, "" and 0 are falsy.
Truthy(v) == \/ v.t = "int" /\ v.i # 0
             \/ v.t = "str" /\ v.s # ""
\* isinstance(v, str)
IsStr(v) == v.t = "str"

\* int(v) as handle_make_move uses it: ok is FALSE where Python raises
\* ValueError or TypeError.
DigitStrings == {"0", "1", "2"}
PyInt(v) ==
    IF v.t = "int" THEN [ok |-> TRUE, val |-> v.i]
    ELSE IF v.t = "str" /\ v.s \in DigitStrings
         THEN [ok |-> TRUE, val |-> CASE v.s = "0" -> 0 [] v.s = "1" -> 1 [] v.s = "2" -> 2]
         ELSE [ok |-> FALSE, val |-> 0]

(***************************************************************************)
(* tictactoe_game.py : class TicTacToeGame                                 *)
(***************************************************************************)
Cells == (0..2) \X (0..2)
NoneStr == "None"                                   \* Python None as a piece
NoPlayer == [uuid |-> "", name |-> ""]              \* players['O'] = None
EmptyBoard == [c \in Cells |-> ""]

\* TicTacToeGame.__init__
NewGame(game_id, player1_uuid, player1_name) ==
    [game_id |-> game_id,
     board   |-> EmptyBoard,
     players |-> [X |-> [uuid |-> player1_uuid, name |-> player1_name],
                  O |-> NoPlayer],
     turn    |-> "X",
     status  |-> "waiting",
     winner  |-> NoneStr]

\* TicTacToeGame.add_player2: [ok, game]
\* add_player2_overwrite is a faulty variant: it fills the slot whatever it
\* holds and leaves the status.
add_player2_overwrite(game, player2_uuid, player2_name) ==
    [ok |-> TRUE,
     game |-> [game EXCEPT !.players.O = [uuid |-> player2_uuid, name |-> player2_name]]]
add_player2(game, player2_uuid, player2_name) ==
    IF game.players.O = NoPlayer
    THEN [ok |-> TRUE,
          game |-> [game EXCEPT !.players.O = [uuid |-> player2_uuid, name |-> player2_name],
                                !.status = "active"]]
    ELSE [ok |-> FALSE, game |-> game]

\* TicTacToeGame.get_state: turn, status and winner are copied, the board is
\* the live list (resolved when the frame is serialised, see json_dumps).
get_state(game) ==
    [game_id |-> game.game_id,
     turn    |-> game.turn,
     status  |-> game.status,
     players |-> game.players,
     winner  |-> game.winner]

\* TicTacToeGame.get_player_piece
get_player_piece(game, player_uuid) ==
    IF game.players.X # NoPlayer /\ game.players.X.uuid = player_uuid THEN "X"
    ELSE IF game.players.O # NoPlayer /\ game.players.O.uuid = player_uuid THEN "O"
    ELSE NoneStr

\* TicTacToeGame.check_winner: rows, then columns, then the two diagonals.
Line3(board, a, b, c) == board[a] = board[b] /\ board[b] = board[c] /\ board[c] # ""
\* check_winner_rows_only is a faulty variant that looks at the rows only.
check_winner_rows_only(board) ==
    IF \E i \in 0..2 : Line3(board, <<i, 0>>, <<i, 1>>, <<i, 2>>)
    THEN LET i == CHOOSE k \in 0..2 :
                    /\ Line3(board, <<k, 0>>, <<k, 1>>, <<k, 2>>)
                    /\ \A m \in 0..2 : Line3(board, <<m, 0>>, <<m, 1>>, <<m, 2>>) => k <= m
         IN board[<<i, 0>>]
    ELSE NoneStr
check_winner(board) ==
    IF \E i \in 0..2 : Line3(board, <<i, 0>>, <<i, 1>>, <<i, 2>>)
    THEN LET i == CHOOSE k \in 0..2 :
                    /\ Line3(board, <<k, 0>>, <<k, 1>>, <<k, 2>>)
                    /\ \A m \in 0..2 : Line3(board, <<m, 0>>, <<m, 1>>, <<m, 2>>) => k <= m
         IN board[<<i, 0>>]
    ELSE IF \E j \in 0..2 : Line3(board, <<0, j>>, <<1, j>>, <<2, j>>)
    THEN LET j == CHOOSE k \in 0..2 :
                    /\ Line3(board, <<0, k>>, <<1, k>>, <<2, k>>)
                    /\ \A m \in 0..2 : Line3(board, <<0, m>>, <<1, m>>, <<2, m>>) => k <= m
         IN board[<<0, j>>]
    ELSE IF Line3(board, <<0, 0>>, <<1, 1>>, <<2, 2>>) THEN board[<<0, 0>>]
    ELSE IF Line3(board, <<0, 2>>, <<1, 1>>, <<2, 0>>) THEN board[<<0, 2>>]
    ELSE NoneStr

\* No result: make_move was not called.
NoResult == [success |-> FALSE, reason |-> "", next_turn |-> NoneStr,
             game_over |-> FALSE, winner |-> NoneStr, is_tie |-> FALSE]

\* make_move, lines 51-68: the result dictionary of a rejected move; the
\* game is left as it is.
\* MoveRejectedTurnPassed is a faulty variant that passes the turn on a
\* rejection.
MoveRejectedTurnPassed(game, reason) ==
    [game |-> [game EXCEPT !.turn = IF @ = "X" THEN "O" ELSE "X"],
     result |-> [success |-> FALSE, reason |-> reason, next_turn |-> NoneStr,
                 game_over |-> FALSE, winner |-> NoneStr, is_tie |-> FALSE]]
MoveRejected(game, reason) ==
    [game |-> game,
     result |-> [success |-> FALSE, reason |-> reason, next_turn |-> NoneStr,
                 game_over |-> FALSE, winner |-> NoneStr, is_tie |-> FALSE]]

\* make_move, line 51: the game is not in play.
\* StatusIgnored is a faulty variant that takes every game to be in play.
StatusIgnored(game) == FALSE
NotActive(game) == game.status # "active"

\* make_move, line 66: the cell holds a mark.
\* CellNeverTaken is a faulty variant that takes every cell to be empty.
CellNeverTaken(board, y, x) == FALSE
CellTaken(board, y, x) == board[<<y, x>>] # ""

\* make_move, line 103: the piece that moves next.
\* SamePiece is a faulty variant that does not pass the turn.
SamePiece(turn) == turn
OtherPiece(turn) == IF turn = "X" THEN "O" ELSE "X"

\* TicTacToeGame.make_move, lines 71 and 76-78: the game after a winning move.
\* WonStillActive is a faulty variant that leaves the status as it is.
WonStillActive(game, placed, winner) ==
    [game EXCEPT !.board = placed, !.winner = winner]
Won(game, placed, winner) ==
    [game EXCEPT !.board = placed, !.winner = winner, !.status = "finished"]

\* TicTacToeGame.make_move: [game, result]; result["board"] is the live board.
make_move(game, player_uuid, y, x) ==
    LET player_piece == get_player_piece(game, player_uuid) IN
    IF NotActive(game) THEN MoveRejected(game, "Game is not active")
    ELSE IF player_piece = NoneStr THEN MoveRejected(game, "Player not in game")
    ELSE IF player_piece # game.turn THEN MoveRejected(game, "Not your turn")
    ELSE IF ~(0 <= y /\ y < 3 /\ 0 <= x /\ x < 3) THEN MoveRejected(game, "Invalid position")
    ELSE IF CellTaken(game.board, y, x) THEN MoveRejected(game, "Position already occupied")
    ELSE
      LET placed == [game.board EXCEPT ![<<y, x>>] = player_piece]
          winner == check_winner(placed)
      IN IF winner # NoneStr
         THEN [game |-> Won(game, placed, winner),
               result |-> [success |-> TRUE, reason |-> "", next_turn |-> NoneStr,
                           game_over |-> TRUE, winner |-> winner, is_tie |-> FALSE]]
         ELSE IF \A c \in Cells : placed[c] # ""
         THEN [game |-> [game EXCEPT !.board = placed, !.status = "finished"],
               result |-> [success |-> TRUE, reason |-> "", next_turn |-> NoneStr,
                           game_over |-> TRUE, winner |-> NoneStr, is_tie |-> TRUE]]
         ELSE LET next == OtherPiece(game.turn) IN
              [game |-> [game EXCEPT !.board = placed, !.turn = next],
               result |-> [success |-> TRUE, reason |-> "", next_turn |-> next,
                           game_over |-> FALSE, winner |-> NoneStr, is_tie |-> FALSE]]

(***************************************************************************)
(* server_websocket.py : shared state and the tasks' local state           *)
(***************************************************************************)
VARIABLES
    CLIENTS,          \* the CLIENTS dict, in insertion order: a sequence of
                      \* [uuid, name, websocket, current_game]
    GAMES,            \* the keys of the GAMES dict
    heap,             \* the TicTacToeGame instances ever constructed, by game_id
    AVAILABLE_GAMES,  \* the AVAILABLE_GAMES dict: game_id -> entry
    STATE_LOCK,       \* the tasks holding STATE_LOCK: {} or one task
    closed,           \* the websockets that are closed
    pc,               \* where each task is suspended
    todo,             \* what each task does when it resumes
    client_uuid,      \* handle_client's local client_uuid ("" is None)
    req,              \* the frame a connection task is processing
    out,              \* the frames the running handler has passed to websocket.send
    result,           \* handle_make_move's local result, per task
    ngames,           \* game ids generated so far
    nmsgs,            \* inbound frames received so far
    nticks            \* periodic broadcasts started so far

vars == <<CLIENTS, GAMES, heap, AVAILABLE_GAMES, STATE_LOCK, closed, pc, todo,
          client_uuid, req, out, result, ngames, nmsgs, nticks>>

(***************************************************************************)
(* The CLIENTS dict.                                                       *)
(***************************************************************************)
Keys(C) == {C[i].uuid : i \in DOMAIN C}
Get(C, u) == C[CHOOSE i \in DOMAIN C : C[i].uuid = u]
Put(C, u, e) ==
    IF u \in Keys(C)
    THEN [i \in DOMAIN C |-> IF C[i].uuid = u THEN e ELSE C[i]]
    ELSE Append(C, e)
Del(C, u) == SelectSeq(C, LAMBDA e : e.uuid # u)
SetCurrentGame(C, u, g) ==
    [i \in DOMAIN C |-> IF C[i].uuid = u THEN [C[i] EXCEPT !.current_game = g] ELSE C[i]]

\* del AVAILABLE_GAMES[game_id]
\* KeepKey is a faulty variant that leaves the entry in.
KeepKey(A, g) == A
DelKey(A, g) == [k \in DOMAIN A \ {g} |-> A[k]]

(***************************************************************************)
(* Outbound frames.  alias names the game whose live board list the        *)
(* message dictionary references; json.dumps reads it when the frame is    *)
(* sent.                                                                   *)
(***************************************************************************)
ErrorMsg(text) == [action |-> "error", message |-> text]
RegisteredMsg(u, n) == [action |-> "registered", uuid |-> u, name |-> n]
GamesMsg(list) == [action |-> "available_games_update", games |-> list]
GameErrorMsg(g, text) == [action |-> "game_error", game_id |-> g, message |-> text]
StateMsg(action, g, state, piece) ==
    [action |-> action, game_id |-> g, game_state |-> state, player_piece |-> piece,
     alias |-> g]
GameOverMsg(g, res) ==
    [action |-> "game_over", game_id |-> g, alias |-> g,
     winner_piece |-> res.winner, is_tie |-> res.is_tie]
GameUpdateMsg(g, res) ==
    [action |-> "game_update", game_id |-> g, alias |-> g,
     next_turn_piece |-> res.next_turn]
MoveErrorMsg(g, text, alias) ==
    [action |-> "move_error", game_id |-> g, message |-> text, alias |-> alias]
OpponentDisconnectedMsg(g, leaving_player_name) ==
    [action |-> "opponent_disconnected", game_id |-> g, message |-> leaving_player_name]

\* json.dumps(message) inside send_message: the board is read now.
\* The frame on the wire has the fields of m and, where m references a
\* board, that board as it is now.
WithBoard(m, board) ==
    [f \in (DOMAIN m \cup {"board"}) \ {"alias"} |-> IF f = "board" THEN board ELSE m[f]]
json_dumps(h, m) ==
    IF "alias" \in DOMAIN m /\ m.alias # NoGame
    THEN WithBoard(m, h[m.alias].board)
    ELSE m

(***************************************************************************)
(* Inbound frames.                                                         *)
(***************************************************************************)
JAbsent == [t |-> "absent", i |-> 0, s |-> ""]        \* key not in the message
\* json: json.loads accepts the text; dict: the value it returns is an
\* object (message.get raises AttributeError on a list, a number, a string
\* or null).
F0 == [json |-> TRUE, dict |-> TRUE, action |-> "", uuid |-> JNull, name |-> JAbsent,
       game_id |-> NoGame, y |-> JNull, x |-> JNull]
\* message.get('name', 'Anonymous')
NameOf(frame) == IF frame.name.t = "absent" THEN JStr("Anonymous") ELSE frame.name

(***************************************************************************)
(* What a suspended task still has to do: a sequence of calls.             *)
(***************************************************************************)
ISend(ws, msg)      == [op |-> "send_message", ws |-> ws, msg |-> msg, client |-> ""]
ISendFor(ws, msg, u) == [op |-> "send_message", ws |-> ws, msg |-> msg, client |-> u]
ISendTo(u, msg)     == [op |-> "send_message_to_client", uuid |-> u, msg |-> msg]
IBroadcastGame(g, msg) == [op |-> "broadcast_game_message", g |-> g, msg |-> msg]
IBroadcastAvail     == [op |-> "broadcast_available_games"]
ICleanupGame(g)     == [op |-> "cleanup_game", g |-> g]
ICleanupClient(u)   == [op |-> "cleanup_client", uuid |-> u]
IRegister(ws, u, n, first) ==
    [op |-> "handle_register", ws |-> ws, juuid |-> u, name |-> n, first |-> first]
IRegisterLocked(ws, u, n) == [op |-> "register_locked", ws |-> ws, juuid |-> u, name |-> n]
IRegisterTail(ws, u) == [op |-> "register_tail", ws |-> ws, juuid |-> u]
IDispatch(frame)    == [op |-> "dispatch", frame |-> frame]
IClose              == [op |-> "close"]
IFinally            == [op |-> "finally"]
IRelease            == [op |-> "release"]
ILoop               == [op |-> "loop"]
IExit               == [op |-> "exit"]
ISleep              == [op |-> "sleep"]

\* The calls that begin with "async with STATE_LOCK".
NeedsLock(op) ==
    op \in {"send_message_to_client", "broadcast_game_message",
            "broadcast_available_games", "cleanup_game", "cleanup_client",
            "register_locked", "register_tail", "dispatch"}

RECURSIVE SortedSeq(_)
SortedSeq(S) ==
    IF S = {} THEN <<>>
    ELSE LET m == CHOOSE k \in S : \A j \in S : k <= j
         IN <<m>> \o SortedSeq(S \ {m})

\* get_available_games_list: the entries in insertion order (game ids are
\* generated in increasing order here).
get_available_games_list(A) ==
    LET ks == SortedSeq(DOMAIN A) IN [i \in DOMAIN ks |-> A[ks[i]]]

(***************************************************************************)
(* The handlers.  S is the server state as the running task t sees it:     *)
(* C, G, h, A, L, cl, n are CLIENTS, GAMES, heap, AVAILABLE_GAMES,         *)
(* STATE_LOCK, closed, ngames; td, o, p, cu, r are the task's todo, out,   *)
(* pc, client_uuid and result.  Each handler returns the state after its              *)
(* uninterrupted part, with the calls that follow it put in front of rest. *)
(***************************************************************************)

\* send_message: json.dumps and websocket.send; a closed websocket raises
\* WebSocketException, which is caught and logged.  client is the client
\* send_message_to_client looked the websocket up for ("" when a handler
\* answers on its own connection); out keeps it beside the frame.
\* send_message_raising is a faulty variant without the except clause: the
\* exception of a closed websocket ends the handler, and the finally block
\* of handle_client (of the running task) follows.
send_message_raising(S, ws, msg, client, rest) ==
    [S EXCEPT !.o = Append(@, [to |-> ws, ok |-> ws \notin S.cl, client |-> client,
                               msg |-> json_dumps(S.h, msg)]),
              !.td = IF ws \in S.cl THEN <<IFinally>> ELSE rest, !.p = "await"]
send_message(S, ws, msg, client, rest) ==
    [S EXCEPT !.o = Append(@, [to |-> ws, ok |-> ws \notin S.cl, client |-> client,
                               msg |-> json_dumps(S.h, msg)]),
              !.td = rest, !.p = "await"]

\* send_message_to_client
\* send_message_to_client_stale is a faulty variant that sends on the
\* connection of the running task.
send_message_to_client_stale(S, u, msg, rest) ==
    IF u \in Keys(S.C)
    THEN [S EXCEPT !.td = <<ISendFor(S.t, msg, u)>> \o rest]
    ELSE [S EXCEPT !.td = rest]
send_message_to_client(S, u, msg, rest) ==
    IF u \in Keys(S.C)
    THEN [S EXCEPT !.td = <<ISendFor(Get(S.C, u).websocket, msg, u)>> \o rest]
    ELSE [S EXCEPT !.td = rest]

\* broadcast_game_message
broadcast_game_message(S, g, msg, rest) ==
    IF g \notin S.G THEN [S EXCEPT !.td = rest]
    ELSE LET game == S.h[g]
             toX == IF game.players.X # NoPlayer /\ game.players.X.uuid # ""
                    THEN <<ISendTo(game.players.X.uuid, msg)>> ELSE <<>>
             toO == IF game.players.O # NoPlayer /\ game.players.O.uuid # ""
                    THEN <<ISendTo(game.players.O.uuid, msg)>> ELSE <<>>
         IN [S EXCEPT !.td = toX \o toO \o rest]

\* broadcast_available_games
broadcast_available_games(S, rest) ==
    LET message == GamesMsg(get_available_games_list(S.A))
        clients_in_lobby == SelectSeq(S.C, LAMBDA e : e.current_game = NoGame)
    IN [S EXCEPT !.td = [i \in DOMAIN clients_in_lobby |->
                            ISendTo(clients_in_lobby[i].uuid, message)] \o rest]

\* cleanup_game, lines 336-339: the session is not in the directory.
\* NeverGone is a faulty variant that takes every session for present.
NeverGone(S, g) == FALSE
Gone(S, g) == g \notin S.G

\* cleanup_game
cleanup_game(S, g, rest) ==
    IF Gone(S, g) THEN [S EXCEPT !.td = rest]
    ELSE LET game == S.h[g]
             players_in_game == {pl.uuid : pl \in {game.players.X, game.players.O} \ {NoPlayer}}
         IN [S EXCEPT !.C = [i \in DOMAIN S.C |->
                                IF S.C[i].uuid \in players_in_game
                                THEN [S.C[i] EXCEPT !.current_game = NoGame]
                                ELSE S.C[i]],
                      !.G = @ \ {g},
                      !.A = DelKey(S.A, g),
                      !.td = <<IBroadcastAvail>> \o rest]

\* cleanup_client; the notification's text is
\* f"{leaving_player_name} disconnected. Game ended.", kept as the name.
cleanup_client(S, u, rest) ==
    IF u \notin Keys(S.C) THEN [S EXCEPT !.td = rest]
    ELSE
      LET game_id == Get(S.C, u).current_game IN
      IF game_id \in S.G
      THEN LET game == S.h[game_id]
               opponent_uuid ==
                   IF game.players.X # NoPlayer /\ game.players.X.uuid # u
                   THEN game.players.X.uuid
                   ELSE IF game.players.O # NoPlayer /\ game.players.O.uuid # u
                        THEN game.players.O.uuid
                        ELSE ""
               leaving_player_name ==
                   IF game.players.X # NoPlayer /\ game.players.X.uuid = u
                   THEN game.players.X.name
                   ELSE IF game.players.O # NoPlayer /\ game.players.O.uuid = u
                        THEN game.players.O.name
                        ELSE "Opponent"
               notify == IF opponent_uuid # ""
                         THEN <<ISendTo(opponent_uuid,
                                        OpponentDisconnectedMsg(game_id, leaving_player_name))>>
                         ELSE <<>>
           IN [S EXCEPT !.h[game_id].status = "finished",
                        !.C = Del(S.C, u),
                        !.td = notify \o <<ICleanupGame(game_id)>> \o rest]
      ELSE [S EXCEPT !.C = Del(S.C, u), !.td = <<IBroadcastAvail>> \o rest]

\* handle_register, lines 129-133: validation.  In handle_client a failed
\* registration closes the websocket (lines 493-497).
handle_register(S, ws, u, name, first, rest) ==
    IF ~Truthy(u) \/ ~IsStr(u) \/ ~Truthy(name)
    THEN [S EXCEPT !.td = <<ISend(ws, ErrorMsg("Invalid register request: missing UUID or name."))>>
                          \o (IF first THEN <<IClose, IFinally>> ELSE rest)]
    ELSE [S EXCEPT !.td = <<IRegisterLocked(ws, u, name)>> \o rest]

\* handle_register, lines 135-156
\* register_locked_keep is a faulty variant that leaves the record of a
\* registered client as it is.
register_locked_keep(S, ws, u, name, rest) ==
    [S EXCEPT !.C = IF u.s \in Keys(S.C) THEN S.C
                    ELSE Put(S.C, u.s, [uuid |-> u.s, name |-> name.s, websocket |-> ws,
                                        current_game |-> NoGame]),
              !.td = <<ISend(ws, RegisteredMsg(u.s, name.s)), IRegisterTail(ws, u)>> \o rest]
register_locked(S, ws, u, name, rest) ==
    [S EXCEPT !.C = IF u.s \in Keys(S.C)
                    THEN Put(S.C, u.s, [Get(S.C, u.s) EXCEPT !.name = name.s, !.websocket = ws])
                    ELSE Put(S.C, u.s, [uuid |-> u.s, name |-> name.s, websocket |-> ws,
                                        current_game |-> NoGame]),
              !.td = <<ISend(ws, RegisteredMsg(u.s, name.s)), IRegisterTail(ws, u)>> \o rest]

\* handle_register, lines 158-181.  CLIENTS[client_uuid] raises KeyError when
\* the record was removed while "registered" was being sent; the exception
\* ends handle_client, whose finally block runs.
register_tail(S, ws, u, rest) ==
    IF u.s \notin Keys(S.C) THEN [S EXCEPT !.td = <<IFinally>>]
    ELSE
      LET current_game_id == Get(S.C, u.s).current_game IN
      IF current_game_id # NoGame /\ current_game_id \in S.G
      THEN LET game == S.h[current_game_id] IN
           [S EXCEPT !.td = <<ISend(ws, StateMsg("rejoin_game", current_game_id, get_state(game),
                                                 get_player_piece(game, u.s)))>> \o rest]
      ELSE [S EXCEPT !.C = SetCurrentGame(S.C, u.s, NoGame),
                     !.td = <<ISend(ws, GamesMsg(get_available_games_list(S.A)))>> \o rest]

\* A handler that calls send_message_to_client inside "async with STATE_LOCK":
\* asyncio.Lock is not reentrant, so the task keeps the lock and waits for it.
HoldingLock(S, calls, rest) ==
    [S EXCEPT !.L = {S.t}, !.td = calls \o <<IRelease>> \o rest]

\* handle_create_game
handle_create_game(S, player1_uuid, rest) ==
    IF player1_uuid \notin Keys(S.C) THEN [S EXCEPT !.td = rest]
    ELSE
      LET client_info == Get(S.C, player1_uuid) IN
      IF client_info.current_game # NoGame
      THEN HoldingLock(S, <<ISendTo(player1_uuid, ErrorMsg("You are already in a game."))>>, rest)
      ELSE LET game_id == S.n + 1
               game == NewGame(game_id, player1_uuid, client_info.name)
           IN [S EXCEPT !.n = game_id,
                        !.h = [k \in DOMAIN S.h \cup {game_id} |->
                                  IF k = game_id THEN game ELSE S.h[k]],
                        !.G = @ \cup {game_id},
                        !.A = [k \in DOMAIN S.A \cup {game_id} |->
                                  IF k = game_id
                                  THEN [game_id |-> game_id, player1_name |-> client_info.name,
                                        player1_uuid |-> player1_uuid]
                                  ELSE S.A[k]],
                        !.C = SetCurrentGame(S.C, player1_uuid, game_id),
                        !.td = <<ISendTo(player1_uuid,
                                         StateMsg("game_created", game_id, get_state(game),
                                                  get_player_piece(game, player1_uuid))),
                                 IBroadcastAvail>> \o rest]

\* handle_join_game, lines 232-234: not game or game_id not in AVAILABLE_GAMES.
NotJoinable(S, game_id) == game_id \notin S.G \/ game_id \notin DOMAIN S.A

\* handle_join_game
handle_join_game(S, player2_uuid, game_id, rest) ==
    IF player2_uuid \notin Keys(S.C) THEN [S EXCEPT !.td = rest]
    ELSE
      LET client_info == Get(S.C, player2_uuid) IN
      IF client_info.current_game # NoGame
      THEN HoldingLock(S, <<ISendTo(player2_uuid, ErrorMsg("You are already in a game."))>>, rest)
      ELSE IF NotJoinable(S, game_id)
      THEN HoldingLock(S, <<ISendTo(player2_uuid,
                                    GameErrorMsg(game_id, "Game not found or is full.")),
                            ISendTo(player2_uuid, GamesMsg(get_available_games_list(S.A)))>>,
                       rest)
      ELSE LET added == add_player2(S.h[game_id], player2_uuid, client_info.name) IN
           IF added.ok
           THEN [S EXCEPT !.h[game_id] = added.game,
                          !.C = SetCurrentGame(S.C, player2_uuid, game_id),
                          !.A = DelKey(S.A, game_id),
                          !.td = <<IBroadcastGame(game_id,
                                      StateMsg("game_start", game_id, get_state(added.game), "")),
                                   IBroadcastAvail>> \o rest]
           ELSE HoldingLock(S, <<ISendTo(player2_uuid,
                                         ErrorMsg("Failed to join game. Game might be full.")),
                                 ISendTo(player2_uuid, GamesMsg(get_available_games_list(S.A)))>>,
                            rest)

\* handle_make_move
handle_make_move(S, u, game_id, y, x, rest) ==
    IF game_id \notin S.G
    THEN HoldingLock(S, <<ISendTo(u, GameErrorMsg(game_id, "Game not found."))>>, rest)
    ELSE
      LET yy == PyInt(y)
          xx == PyInt(x)
      IN IF ~yy.ok \/ ~xx.ok
         THEN [S EXCEPT !.td = <<ISendTo(u, MoveErrorMsg(game_id, "Invalid coordinates.", NoGame))>>
                               \o rest]
         ELSE LET mv == make_move(S.h[game_id], u, yy.val, xx.val) IN
              IF mv.result.success
              THEN IF mv.result.game_over
                   THEN [S EXCEPT !.h[game_id] = mv.game, !.r = mv.result,
                                  !.td = <<IBroadcastGame(game_id, GameOverMsg(game_id, mv.result)),
                                           ICleanupGame(game_id)>> \o rest]
                   ELSE [S EXCEPT !.h[game_id] = mv.game, !.r = mv.result,
                                  !.td = <<IBroadcastGame(game_id, GameUpdateMsg(game_id, mv.result))>>
                                        \o rest]
              ELSE [S EXCEPT !.h[game_id] = mv.game, !.r = mv.result,
                             !.td = <<ISendTo(u, MoveErrorMsg(game_id, mv.result.reason, game_id))>>
                                   \o rest]

\* process_message, line 408: client_info.get('websocket') != websocket.
\* AnyWebsocket is a faulty variant that takes every connection for the
\* client's own.
AnyWebsocket(client_info, websocket) == FALSE
OtherWebsocket(client_info, websocket) == client_info.websocket # websocket

\* process_message, line 423: current_game_id is None.
\* AlwaysInLobby is a faulty variant that routes every client as a lobby
\* client.
AlwaysInLobby(current_game_id) == TRUE
InLobby(current_game_id) == current_game_id = NoGame

\* process_message, lines 385-459 (the frame parsed, its uuid checked)
process_message(S, frame, rest) ==
    LET effective_client_uuid == IF Truthy(frame.uuid) THEN frame.uuid ELSE JStr(S.cu)
        known == IsStr(effective_client_uuid) /\ effective_client_uuid.s \in Keys(S.C)
        u == effective_client_uuid.s
    IN
    IF frame.action = "register"
    THEN handle_register(S, S.t, effective_client_uuid, NameOf(frame), FALSE, rest)
    ELSE IF ~known \/ OtherWebsocket(Get(S.C, u), S.t)
    THEN [S EXCEPT !.td = <<ISend(S.t, ErrorMsg("Client not fully registered or using an old connection."))>>
                          \o rest]
    ELSE
      LET current_game_id == Get(S.C, u).current_game IN
      IF InLobby(current_game_id)
      THEN CASE frame.action = "create_game" -> handle_create_game(S, u, rest)
             [] frame.action = "join_game" ->
                  IF frame.game_id # NoGame
                  THEN handle_join_game(S, u, frame.game_id, rest)
                  ELSE [S EXCEPT !.td = <<ISendTo(u, ErrorMsg("Join game request missing game_id."))>>
                                        \o rest]
             [] frame.action = "list_games" ->
                  [S EXCEPT !.td = <<ISendTo(u, GamesMsg(get_available_games_list(S.A)))>> \o rest]
             [] OTHER ->
                  [S EXCEPT !.td = <<ISendTo(u, ErrorMsg("Unknown action in lobby state."))>> \o rest]
      ELSE IF current_game_id \in S.G
      THEN IF frame.action = "make_move"
           THEN handle_make_move(S, u, current_game_id, frame.y, frame.x, rest)
           ELSE [S EXCEPT !.td = <<ISendTo(u, ErrorMsg("Unknown game action."))>> \o rest]
      ELSE [S EXCEPT !.C = SetCurrentGame(S.C, u, NoGame),
                     !.td = <<ISendTo(u, ErrorMsg("Was in invalid game state, returning to lobby.")),
                              ISendTo(u, GamesMsg(get_available_games_list(S.A)))>> \o rest]

(***************************************************************************)
(* One uninterrupted run of task S.t: the calls of S.td are made until one *)
(* of them suspends the task.                                              *)
(***************************************************************************)
\* The calls left are the task's own business: it returns to its receive
\* loop or to its sleep, or closes its own websocket and ends, and has no
\* client record to clean up.  A suspension before such calls changes
\* nothing another task can see, and is not made a separate step.
Local(calls, cu) ==
    \/ Head(calls).op \in {"loop", "sleep"}
    \/ cu = "" /\ \A k \in DOMAIN calls : calls[k].op \in {"close", "finally", "exit"}

RECURSIVE Exec(_)
\* One call of the continuation, and the rest of the run after it.
Run(S) ==
    LET i == Head(S.td)
        rest == Tail(S.td)
    IN
    IF NeedsLock(i.op) /\ S.L # {} THEN [S EXCEPT !.p = "lock"]
    ELSE CASE i.op = "send_message" ->
                \* A send after which the handler only returns to its receive loop
                \* (or to its sleep) is not a separate step: its suspension
                \* changes nothing another task can see.
                IF Local(rest, S.cu)
                THEN Exec([send_message(S, i.ws, i.msg, i.client, rest) EXCEPT !.p = S.p])
                ELSE send_message(S, i.ws, i.msg, i.client, rest)
           [] i.op = "close" ->
                IF Local(rest, S.cu)
                THEN Exec([S EXCEPT !.cl = @ \cup {S.t}, !.td = rest])
                ELSE [S EXCEPT !.cl = @ \cup {S.t}, !.td = rest, !.p = "await"]
           [] i.op = "sleep" -> [S EXCEPT !.td = <<ISleep>>, !.p = "returned"]
           [] i.op = "loop" -> [S EXCEPT !.td = rest, !.p = "returned"]
           [] i.op = "exit" -> [S EXCEPT !.cl = @ \cup {S.t}, !.td = <<>>, !.p = "exited"]
           [] i.op = "release" -> Exec([S EXCEPT !.L = {}, !.td = rest])
           [] i.op = "finally" ->
                Exec([S EXCEPT !.td = IF S.cu # "" THEN <<ICleanupClient(S.cu), IExit>>
                                      ELSE <<IExit>>])
           [] i.op = "send_message_to_client" -> Exec(send_message_to_client(S, i.uuid, i.msg, rest))
           [] i.op = "broadcast_game_message" -> Exec(broadcast_game_message(S, i.g, i.msg, rest))
           [] i.op = "broadcast_available_games" -> Exec(broadcast_available_games(S, rest))
           [] i.op = "cleanup_game" -> Exec(cleanup_game(S, i.g, rest))
           [] i.op = "cleanup_client" -> Exec(cleanup_client(S, i.uuid, rest))
           [] i.op = "handle_register" ->
                Exec(handle_register(S, i.ws, i.juuid, i.name, i.first, rest))
           [] i.op = "register_locked" -> Exec(register_locked(S, i.ws, i.juuid, i.name, rest))
           [] i.op = "register_tail" -> Exec(register_tail(S, i.ws, i.juuid, rest))
           [] i.op = "dispatch" -> Exec(process_message(S, i.frame, rest))

\* The run of a task from S0 to its next suspension point.  S0 is bound to
\* its value before Run uses it, so that it is computed once.
Exec(S0) == CHOOSE r \in {Run(S) : S \in {S0}} : TRUE

(***************************************************************************)
(* The frames the clients send.                                            *)
(***************************************************************************)
GoodUuids == {JStr(c) : c \in ClientIds}
NameValues == {JStr("n1"), JStr(""), JAbsent}
\* The name a client gives when it first registers; it can re-register
\* under any of NameValues.
FirstName(c) == IF c = "A" THEN JStr("n1") ELSE JAbsent
ServerMoves == {<<JInt(0), JInt(0)>>, <<JInt(1), JInt(0)>>, <<JStr("x"), JInt(0)>>}
GameMoves ==
    {<<JInt(y), JInt(x)>> : y \in 0..1, x \in 0..2}
    \cup {<<JInt(3), JInt(0)>>, <<JStr("1"), JInt(1)>>, <<JStr("x"), JInt(0)>>}
MoveFrame(c, m) == [F0 EXCEPT !.action = "make_move", !.uuid = JStr(c), !.y = m[1], !.x = m[2]]

\* A frame with no usable uuid is rejected before its action is looked at
\* unless the action is register: one other action stands for all.
FramesWith(moves) ==
    {[F0 EXCEPT !.json = FALSE],
     [F0 EXCEPT !.dict = FALSE],
     [F0 EXCEPT !.action = "list_games", !.uuid = JNull],
     [F0 EXCEPT !.action = "register", !.uuid = JNull, !.name = JStr("n1")],
     [F0 EXCEPT !.action = "register", !.uuid = JInt(5), !.name = JStr("n1")]}
    \cup {[F0 EXCEPT !.action = "register", !.uuid = u, !.name = n] :
             u \in GoodUuids, n \in NameValues}
    \cup {[F0 EXCEPT !.action = a, !.uuid = u] :
             a \in {"create_game", "list_games", "chat"}, u \in GoodUuids}
    \cup {[F0 EXCEPT !.action = "join_game", !.uuid = u, !.game_id = g] :
             u \in GoodUuids, g \in {NoGame} \cup GameIds}
    \cup {MoveFrame(c, m) : c \in ClientIds, m \in moves}
ServerFrames == FramesWith(ServerMoves)
\* First frames of a connection: every kind that handle_client tells apart.
FirstFrames ==
    {[F0 EXCEPT !.json = FALSE],
     [F0 EXCEPT !.dict = FALSE],
     [F0 EXCEPT !.action = "create_game", !.uuid = JStr("A")],
     [F0 EXCEPT !.action = "register", !.uuid = JNull, !.name = JStr("n1")],
     [F0 EXCEPT !.action = "register", !.uuid = JInt(5), !.name = JStr("n1")]}
    \cup {[F0 EXCEPT !.action = "register", !.uuid = JStr(c), !.name = FirstName(c)] :
             c \in ClientIds}
    \cup {[F0 EXCEPT !.action = "register", !.uuid = JStr(c), !.name = JStr("")] :
             c \in ClientIds}

(***************************************************************************)
(* The actions: one uninterrupted run of one task each.                    *)
(***************************************************************************)
World(t) ==
    [t |-> t, C |-> CLIENTS, G |-> GAMES, h |-> heap, A |-> AVAILABLE_GAMES,
     L |-> STATE_LOCK, cl |-> closed, n |-> ngames,
     td |-> todo[t], o |-> out[t], p |-> pc[t], cu |-> client_uuid[t],
     r |-> result[t]]

Commit(t, S) ==
    /\ CLIENTS' = S.C
    /\ GAMES' = S.G
    /\ heap' = S.h
    /\ AVAILABLE_GAMES' = S.A
    /\ STATE_LOCK' = S.L
    /\ closed' = S.cl
    /\ ngames' = S.n
    /\ todo' = [todo EXCEPT ![t] = S.td]
    /\ out' = [out EXCEPT ![t] = S.o]
    /\ pc' = [pc EXCEPT ![t] = S.p]
    /\ client_uuid' = [client_uuid EXCEPT ![t] = S.cu]
    /\ result' = [result EXCEPT ![t] = S.r]

\* No task is at the point where its handler has just returned.
Quiet == \A t \in Tasks : pc[t] \notin {"returned", "exited"}

\* The frame was answered at once and nothing of the server's state changed.
\* MaxMsgs bounds the other frames; frames rejected at once are not counted.
Rejected(S) ==
    /\ S.p = "returned"
    /\ S.C = CLIENTS /\ S.G = GAMES /\ S.h = heap /\ S.A = AVAILABLE_GAMES
    /\ S.L = STATE_LOCK

\* handle_client, lines 469-497: the first frame of a connection.
\* Connections are used in the order of their numbers.
RecvFirst(t, frame) ==
    /\ Quiet
    /\ pc[t] = "recv0"
    /\ t \notin closed
    /\ \A k \in Conns : k < t => pc[k] # "recv0"
    /\ nticks' = nticks
    /\ req' = [req EXCEPT ![t] = frame]
    /\ LET start ==
             IF ~frame.json
             THEN [World(t) EXCEPT
                     !.td = <<ISend(t, ErrorMsg("Invalid JSON received.")), IClose, IFinally>>]
             ELSE IF ~frame.dict
             THEN \* AttributeError at line 475, caught at line 510
                  [World(t) EXCEPT !.td = <<IFinally>>]
             ELSE IF frame.action = "register" /\ Truthy(frame.uuid) /\ IsStr(frame.uuid)
             THEN [World(t) EXCEPT
                     !.cu = frame.uuid.s,
                     !.td = <<IRegister(t, frame.uuid, NameOf(frame), TRUE), ILoop>>]
             ELSE [World(t) EXCEPT
                     !.td = <<ISend(t, ErrorMsg("First message must be a valid register request.")),
                              IClose, IFinally>>]
           S == Exec(start)
       IN /\ nmsgs < MaxMsgs \/ Rejected(S)
          /\ Commit(t, S)
          /\ nmsgs' = IF Rejected(S) THEN nmsgs ELSE nmsgs + 1

\* handle_client, lines 500-502, and process_message, lines 368-394.
Recv(t, frame) ==
    /\ Quiet
    /\ pc[t] = "recv"
    /\ t \notin closed
    /\ frame.action = "create_game" => ngames < MaxGames
    /\ nticks' = nticks
    /\ req' = [req EXCEPT ![t] = frame]
    /\ LET start ==
             IF ~frame.json
             THEN [World(t) EXCEPT
                     !.td = <<ISend(t, ErrorMsg("Invalid JSON received.")), ILoop>>]
             ELSE IF ~frame.dict
             THEN \* AttributeError at line 375, caught at line 510
                  [World(t) EXCEPT !.td = <<IFinally>>]
             ELSE IF frame.action # "register" /\ (~Truthy(frame.uuid) \/ ~IsStr(frame.uuid))
             THEN [World(t) EXCEPT
                     !.td = <<ISend(t, ErrorMsg("Action requires a valid UUID.")), ILoop>>]
             ELSE [World(t) EXCEPT !.td = <<IDispatch(frame), ILoop>>]
           S == Exec(start)
       IN /\ nmsgs < MaxMsgs \/ Rejected(S)
          /\ Commit(t, S)
          /\ nmsgs' = IF Rejected(S) THEN nmsgs ELSE nmsgs + 1

\* The peer or the network closes a connection that has sent its first frame.
ConnectionLost(t) ==
    /\ Quiet
    /\ t \notin closed
    /\ pc[t] \notin {"recv0", "done"}
    /\ closed' = closed \cup {t}
    /\ UNCHANGED <<CLIENTS, GAMES, heap, AVAILABLE_GAMES, STATE_LOCK, pc, todo,
                   client_uuid, req, out, result, ngames, nmsgs, nticks>>

\* handle_client, lines 504-520: the receive loop ends on a closed
\* connection and the finally block runs.
RecvClosed(t) ==
    /\ Quiet
    /\ pc[t] = "recv"
    /\ t \in closed
    /\ UNCHANGED <<req, nmsgs, nticks>>
    /\ Commit(t, Exec([World(t) EXCEPT !.td = <<IFinally>>]))

\* A suspended task goes on: its send, close or sleep is over, or the lock
\* it waits for is free.
Resume(t) ==
    /\ Quiet
    /\ \/ pc[t] = "await"
       \/ pc[t] = "lock" /\ STATE_LOCK = {}
    /\ pc[t] = "await" => Head(todo[t]).op # "sleep"
    /\ UNCHANGED <<req, nmsgs, nticks>>
    /\ Commit(t, Exec(World(t)))

\* periodic_broadcast_available_games, lines 119-125: the sleep is over.
Tick ==
    /\ Quiet
    /\ pc[Periodic] = "await"
    /\ Head(todo[Periodic]).op = "sleep"
    /\ nticks < MaxTicks
    /\ nticks' = nticks + 1
    /\ UNCHANGED <<req, nmsgs>>
    /\ Commit(Periodic, Exec([World(Periodic) EXCEPT !.td = <<IBroadcastAvail, ISleep>>]))

\* The handler has returned: the task waits for the next frame (a connection)
\* or sleeps (the periodic task); what it sent is forgotten.
Returned(t) ==
    /\ pc[t] \in {"returned", "exited"}
    /\ pc' = [pc EXCEPT ![t] = IF pc[t] = "exited" THEN "done"
                                ELSE IF t = Periodic THEN "await" ELSE "recv"]
    /\ out' = [out EXCEPT ![t] = <<>>]
    /\ req' = [req EXCEPT ![t] = F0]
    /\ result' = [result EXCEPT ![t] = NoResult]
    /\ UNCHANGED <<CLIENTS, GAMES, heap, AVAILABLE_GAMES, STATE_LOCK, closed, todo,
                   client_uuid, ngames, nmsgs, nticks>>

Init ==
    /\ CLIENTS = <<>>
    /\ GAMES = {}
    /\ heap = <<>>
    /\ AVAILABLE_GAMES = <<>>
    /\ STATE_LOCK = {}
    /\ closed = {}
    /\ pc = [t \in Tasks |-> IF t = Periodic THEN "await" ELSE "recv0"]
    /\ todo = [t \in Tasks |-> IF t = Periodic THEN <<ISleep>> ELSE <<>>]
    /\ client_uuid = [t \in Tasks |-> ""]
    /\ req = [t \in Tasks |-> F0]
    /\ out = [t \in Tasks |-> <<>>]
    /\ result = [t \in Tasks |-> NoResult]
    /\ ngames = 0
    /\ nmsgs = 0
    /\ nticks = 0

\* The server: the connections' traffic and the periodic broadcast.
Next ==
    \/ \E t \in Conns, frame \in FirstFrames : RecvFirst(t, frame)
    \/ \E t \in Conns, frame \in ServerFrames : Recv(t, frame)
    \/ \E t \in Conns : ConnectionLost(t)
    \/ \E t \in Conns : RecvClosed(t)
    \/ \E t \in Tasks : Resume(t)
    \/ Tick
    \/ \E t \in Tasks : Returned(t)

Spec == Init /\ [][Next]_vars

(***************************************************************************)
(* A session in play: A on connection 1 holds X, B on connection 2 holds   *)
(* O, and the two send make_move frames or lose their connections.  The    *)
(* session starts on the empty board or four moves into the game.          *)
(***************************************************************************)
FourMoves == [c \in Cells |-> IF c[1] = 0 /\ c[2] < 2 THEN "X"
                               ELSE IF c[1] = 1 /\ c[2] < 2 THEN "O" ELSE ""]
GameStarts ==
    {[add_player2(NewGame(1, "A", "n1"), "B", "Anonymous").game EXCEPT !.board = b] :
        b \in {EmptyBoard, FourMoves}}

InitGame ==
    /\ CLIENTS = <<[uuid |-> "A", name |-> "n1", websocket |-> 1, current_game |-> 1],
                   [uuid |-> "B", name |-> "Anonymous", websocket |-> 2, current_game |-> 1]>>
    /\ GAMES = {1}
    /\ \E game \in GameStarts : heap = <<game>>
    /\ AVAILABLE_GAMES = <<>>
    /\ STATE_LOCK = {}
    /\ closed = {}
    /\ pc = [t \in Tasks |-> IF t = Periodic THEN "await"
                                ELSE IF t <= 2 THEN "recv" ELSE "recv0"]
    /\ todo = [t \in Tasks |-> IF t = Periodic THEN <<ISleep>> ELSE <<>>]
    /\ client_uuid = [t \in Tasks |-> IF t = 1 THEN "A" ELSE IF t = 2 THEN "B" ELSE ""]
    /\ req = [t \in Tasks |-> F0]
    /\ out = [t \in Tasks |-> <<>>]
    /\ result = [t \in Tasks |-> NoResult]
    /\ ngames = 1
    /\ nmsgs = 0
    /\ nticks = 0

NextGame ==
    \/ \E t \in 1..2, m \in GameMoves : Recv(t, MoveFrame(client_uuid[t], m))
    \/ \E t \in Conns : ConnectionLost(t)
    \/ \E t \in Conns : RecvClosed(t)
    \/ \E t \in Tasks : Resume(t)
    \/ Tick
    \/ \E t \in Tasks : Returned(t)

SpecGame == InitGame /\ [][NextGame]_vars

(***************************************************************************)
(* One TicTacToeGame object and the calls the server makes on it, in any   *)
(* order and with any arguments: add_player2 while the session is open     *)
(* (handle_join_game, line 235), make_move (handle_make_move) and the      *)
(* assignment to status of cleanup_client.  result[1] is what the last     *)
(* make_move returned.                                                     *)
(***************************************************************************)
Players == {"A", "B", "C"}
BoardCoords == (0 - 1)..3

BoardJoin(u) ==
    /\ heap[1].status = "waiting"
    /\ heap' = [heap EXCEPT ![1] = add_player2(heap[1], u, "n2").game]
    /\ result' = [result EXCEPT ![1] = NoResult]
    /\ UNCHANGED <<CLIENTS, GAMES, AVAILABLE_GAMES, STATE_LOCK, closed, pc, todo,
                   client_uuid, req, out, ngames, nmsgs, nticks>>

BoardMove(u, y, x) ==
    /\ heap' = [heap EXCEPT ![1] = make_move(heap[1], u, y, x).game]
    /\ result' = [result EXCEPT ![1] = make_move(heap[1], u, y, x).result]
    /\ UNCHANGED <<CLIENTS, GAMES, AVAILABLE_GAMES, STATE_LOCK, closed, pc, todo,
                   client_uuid, req, out, ngames, nmsgs, nticks>>

\* cleanup_client, line 535: game.status = 'finished'
BoardAbandon ==
    /\ heap[1].status # "finished"
    /\ heap' = [heap EXCEPT ![1].status = "finished"]
    /\ result' = [result EXCEPT ![1] = NoResult]
    /\ UNCHANGED <<CLIENTS, GAMES, AVAILABLE_GAMES, STATE_LOCK, closed, pc, todo,
                   client_uuid, req, out, ngames, nmsgs, nticks>>

InitBoard ==
    /\ CLIENTS = <<>>
    /\ GAMES = {1}
    /\ heap = <<NewGame(1, "A", "n1")>>
    /\ AVAILABLE_GAMES = <<>>
    /\ STATE_LOCK = {}
    /\ closed = {}
    /\ pc = [t \in Tasks |-> IF t = Periodic THEN "await" ELSE "recv0"]
    /\ todo = [t \in Tasks |-> IF t = Periodic THEN <<ISleep>> ELSE <<>>]
    /\ client_uuid = [t \in Tasks |-> ""]
    /\ req = [t \in Tasks |-> F0]
    /\ out = [t \in Tasks |-> <<>>]
    /\ result = [t \in Tasks |-> NoResult]
    /\ ngames = 1
    /\ nmsgs = 0
    /\ nticks = 0

NextBoard ==
    \/ BoardJoin("B")
    \/ \E u \in Players, y \in BoardCoords, x \in BoardCoords : BoardMove(u, y, x)
    \/ BoardAbandon

SpecBoard == InitBoard /\ [][NextBoard]_vars

(***************************************************************************)
(* The server under the scheduling of the asyncio event loop, with fewer   *)
(* kinds of frames: a task that can go on does go on, the timer of a sleep *)
(* fires, and the receive loop of a closed connection ends.  The clients   *)
(* are free to send nothing.                                               *)
(***************************************************************************)
LiveFirstFrames ==
    {[F0 EXCEPT !.action = "register", !.uuid = JStr(c), !.name = FirstName(c)] :
        c \in ClientIds}
LiveFrames ==
    {[F0 EXCEPT !.action = a, !.uuid = u] :
        a \in {"create_game", "list_games"}, u \in GoodUuids}
    \cup {[F0 EXCEPT !.action = "join_game", !.uuid = u, !.game_id = g] :
             u \in GoodUuids, g \in GameIds}

NextLive ==
    \/ \E t \in Conns, frame \in LiveFirstFrames : RecvFirst(t, frame)
    \/ \E t \in Conns, frame \in LiveFrames : Recv(t, frame)
    \/ \E t \in Conns : ConnectionLost(t)
    \/ \E t \in Conns : RecvClosed(t)
    \/ \E t \in Tasks : Resume(t)
    \/ Tick
    \/ \E t \in Tasks : Returned(t)

Fairness ==
    /\ \A t \in Tasks : WF_vars(Resume(t)) /\ WF_vars(Returned(t))
    /\ \A t \in Conns : WF_vars(RecvClosed(t))
    /\ WF_vars(Tick)

SpecLive == Init /\ [][NextLive]_vars /\ Fairness

(***************************************************************************)
(* The properties.                                                         *)
(***************************************************************************)
\* The client a frame received by a connection speaks for (process_message,
\* line 387): uuid = message.get("uuid") or client_uuid.
Speaker(frame, cu) == IF Truthy(frame.uuid) THEN frame.uuid.s ELSE cu
Sender(t) == Speaker(req[t], client_uuid[t])

\* Connection t is handling a join_game of a registered lobby client for a
\* session that does not exist or is not open.
JoinNotJoinable(t) ==
    /\ pc[t] \in {"await", "lock", "returned"}
    /\ req[t].action = "join_game"
    /\ req[t].game_id # NoGame
    /\ Sender(t) \in Keys(CLIENTS)
    /\ Get(CLIENTS, Sender(t)).websocket = t
    /\ Get(CLIENTS, Sender(t)).current_game = NoGame
    /\ req[t].game_id \notin GAMES \/ req[t].game_id \notin DOMAIN AVAILABLE_GAMES

\* The handler of t has passed a game_error and then the open-session list
\* to the client's websocket.
JoinAnswered(t) ==
    /\ Len(out[t]) = 2
    /\ out[t][1].to = t /\ out[t][1].msg.action = "game_error"
    /\ out[t][2].to = t /\ out[t][2].msg.action = "available_games_update"

\* C1: a join_game of a registered lobby client for a session that does not
\* exist or is no longer open is answered with game_error followed by the
\* open-session list.
C1_JoinNotJoinableAnswered ==
    \A t \in Conns : JoinNotJoinable(t) ~> JoinAnswered(t)

\* C2: no handler waits forever to acquire the state lock: a task that waits
\* for STATE_LOCK gets it, and the lock is free again afterwards.
C2_NoHandlerWaitsForever ==
    \A t \in Tasks : (pc[t] = "lock") ~> (pc[t] # "lock" /\ STATE_LOCK = {})

(***************************************************************************)
(* Moves.                                                                  *)
(***************************************************************************)
Marks(board) == Cardinality({c \in Cells : board[c] # ""})
Full(board) == \A c \in Cells : board[c] # ""
Lines ==
    {{<<i, j>> : j \in 0..2} : i \in 0..2}
    \cup {{<<i, j>> : i \in 0..2} : j \in 0..2}
    \cup {{<<i, i>> : i \in 0..2}, {<<i, 2 - i>> : i \in 0..2}}
Owns(board, piece) == \E line \in Lines : \A c \in line : board[c] = piece

\* C6: whenever the board of a session changes, exactly one empty cell gets
\* a mark, and the mark is X when the board held an even number of marks and
\* O when it held an odd number: the accepted moves alternate X, O, X, ...
C6_MovesAlternate ==
    [][\A g \in DOMAIN heap :
          heap'[g].board # heap[g].board =>
             \E c \in Cells :
                /\ heap[g].board[c] = ""
                /\ heap'[g].board =
                      [heap[g].board EXCEPT
                          ![c] = IF Marks(heap[g].board) % 2 = 0 THEN "X" ELSE "O"]]_vars

\* The handlers of both connections have each had a move accepted and are
\* still sending their updates.
C6_Witness ==
    /\ pc[1] = "await" /\ result[1].success
    /\ pc[2] = "await" /\ result[2].success
    /\ Marks(heap[1].board) = 2

\* C7: when the status of a session is finished, by a win, a tie or an
\* abandonment, every make_move on it returns the rejection "Game is not
\* active" and leaves its board, its turn, its winner and its status as they
\* are.
C7_FinishedRejectsMoves ==
    heap[1].status = "finished" =>
       \A u \in Players, y \in BoardCoords, x \in BoardCoords :
          LET mv == make_move(heap[1], u, y, x)
          IN /\ ~mv.result.success /\ mv.result.reason = "Game is not active"
             /\ mv.game.board = heap[1].board
             /\ mv.game.turn = heap[1].turn
             /\ mv.game.winner = heap[1].winner
             /\ mv.game.status = "finished"

\* A session abandoned in mid-game has had a move rejected.
C7_Witness ==
    /\ heap[1].status = "finished"
    /\ heap[1].winner = NoneStr
    /\ Marks(heap[1].board) \in 1..8
    /\ result[1].reason = "Game is not active"

\* C8 as the specification states it: a move to an occupied cell leaves the
\* board as it is and returns "Position already occupied".
C8_OccupiedAlwaysCellOccupied ==
    \A u \in Players, y \in 0..2, x \in 0..2 :
       heap[1].board[<<y, x>>] # "" =>
          LET mv == make_move(heap[1], u, y, x)
          IN /\ mv.game.board = heap[1].board
             /\ mv.result.reason = "Position already occupied"

\* C8: a move to an occupied cell leaves the game as it is and is rejected;
\* the rejection is "Position already occupied" when the session is active
\* and the mover is the participant whose turn it is, and otherwise the
\* rejection of the check that fails first.
C8_OccupiedRejected ==
    \A u \in Players, y \in 0..2, x \in 0..2 :
       heap[1].board[<<y, x>>] # "" =>
          LET mv == make_move(heap[1], u, y, x)
          IN /\ mv.game = heap[1]
             /\ ~mv.result.success
             /\ mv.result.reason =
                   IF heap[1].status # "active" THEN "Game is not active"
                   ELSE IF u \notin {heap[1].players.X.uuid, heap[1].players.O.uuid}
                        THEN "Player not in game"
                   ELSE IF (heap[1].players.X.uuid = u) # (heap[1].turn = "X")
                        THEN "Not your turn"
                   ELSE "Position already occupied"

\* A move has been rejected because its cell is occupied.
C8_Witness ==
    /\ result[1].reason = "Position already occupied"
    /\ heap[1].status = "active"

\* C10: on every board reached by legal play, an accepted move ends the game
\* with the mover as winner exactly when the mover then holds a full row,
\* column or diagonal; it ends the game as a tie with no winner exactly when
\* the board is then full and the mover holds no such line; otherwise the
\* game goes on, active, with the other piece to move.
C10_MoveOutcome ==
    \A u \in Players, y \in BoardCoords, x \in BoardCoords :
       LET mv == make_move(heap[1], u, y, x)
           piece == IF heap[1].players.X.uuid = u THEN "X" ELSE "O"
           board == mv.game.board
           res == mv.result
       IN res.success =>
             /\ board = [heap[1].board EXCEPT ![<<y, x>>] = piece]
             /\ IF Owns(board, piece)
                THEN /\ res.game_over /\ res.winner = piece /\ ~res.is_tie
                     /\ mv.game.status = "finished" /\ mv.game.winner = piece
                ELSE IF Full(board)
                THEN /\ res.game_over /\ res.winner = NoneStr /\ res.is_tie
                     /\ mv.game.status = "finished" /\ mv.game.winner = NoneStr
                ELSE /\ ~res.game_over /\ res.winner = NoneStr /\ ~res.is_tie
                     /\ mv.game.status = "active" /\ mv.game.winner = NoneStr
                     /\ mv.game.turn # piece /\ res.next_turn = mv.game.turn

\* A game has ended in a tie on a full board.
C10_Witness ==
    /\ result[1].success /\ result[1].is_tie
    /\ Full(heap[1].board)

(***************************************************************************)
(* The lobby.                                                              *)
(***************************************************************************)
\* C9: in every state between two uninterrupted runs, the open-session set
\* holds exactly the sessions of the directory that wait for a second player
\* and have an empty second slot.
C9_OpenSetExact ==
    DOMAIN AVAILABLE_GAMES =
       {g \in GAMES : heap[g].status = "waiting" /\ heap[g].players.O = NoPlayer}

\* A session has been joined and is out of the open-session set while the
\* handler of the join is still sending game_start.
C9_Witness ==
    \E g \in GAMES :
       /\ heap[g].status = "active"
       /\ g \notin DOMAIN AVAILABLE_GAMES
       /\ \E t \in Conns : pc[t] = "await" /\ req[t].action = "join_game"

\* Client u is registered on connection t and is in the lobby.
InLobbyOn(t, u) ==
    /\ u \in Keys(CLIENTS)
    /\ Get(CLIENTS, u).websocket = t
    /\ Get(CLIENTS, u).current_game = NoGame

\* Task t has run in this step.
Ran(t) == pc'[t] # pc[t] \/ out'[t] # out[t]

\* e is a game_start frame for session g with a on X, b on O and X to move,
\* sent to websocket ws for client u.
IsGameStart(e, ws, u, g, a, b) ==
    /\ e.to = ws /\ e.client = u
    /\ e.msg.action = "game_start" /\ e.msg.game_id = g
    /\ e.msg.game_state.status = "active" /\ e.msg.game_state.turn = "X"
    /\ e.msg.game_state.players.X.uuid = a
    /\ e.msg.game_state.players.O.uuid = b

\* Connection t receives create_game from a lobby client: the open-session
\* set gains one entry, for a new session, naming that client.
CreateEffect(t) ==
    LET a == Speaker(req'[t], client_uuid[t]) IN
    (pc[t] = "recv" /\ req'[t].action = "create_game" /\ InLobbyOn(t, a)
       /\ STATE_LOCK = {}) =>
       \E g \in GameIds \ (DOMAIN AVAILABLE_GAMES \cup GAMES) :
          /\ AVAILABLE_GAMES' =
                [k \in DOMAIN AVAILABLE_GAMES \cup {g} |->
                    IF k = g THEN [game_id |-> g, player1_name |-> Get(CLIENTS, a).name,
                                   player1_uuid |-> a]
                    ELSE AVAILABLE_GAMES[k]]
          /\ GAMES' = GAMES \cup {g}
          /\ heap'[g].status = "waiting"

\* Connection t receives join_game for an open session from a lobby client b:
\* the entry is removed, the session is active with its creator on X, b on O
\* and X to move, and game_start with that state is sent to the creator.
JoinEffect(t) ==
    LET b == Speaker(req'[t], client_uuid[t])
        g == req'[t].game_id
    IN (pc[t] = "recv" /\ req'[t].action = "join_game" /\ InLobbyOn(t, b)
          /\ g \in DOMAIN AVAILABLE_GAMES /\ STATE_LOCK = {}) =>
          LET a == AVAILABLE_GAMES[g].player1_uuid IN
          /\ a # b /\ a \in Keys(CLIENTS)
          /\ AVAILABLE_GAMES' = [k \in DOMAIN AVAILABLE_GAMES \ {g} |-> AVAILABLE_GAMES[k]]
          /\ g \in GAMES'
          /\ heap'[g].status = "active" /\ heap'[g].turn = "X"
          /\ heap'[g].players.X.uuid = a /\ heap'[g].players.O.uuid = b
          /\ Get(CLIENTS', b).current_game = g
          /\ Len(out'[t]) = 1
          /\ IsGameStart(out'[t][1], Get(CLIENTS, a).websocket, a, g, a, b)

\* The handler of the join goes on after its first game_start: the second
\* one goes to the client that joined, on the connection it is registered
\* with.
JoinSecondSend(t) ==
    LET b == Sender(t)
        g == req[t].game_id
    IN (pc[t] = "await" /\ req[t].action = "join_game" /\ Len(out[t]) = 1
          /\ out[t][1].msg.action = "game_start" /\ Ran(t)
          /\ b \in Keys(CLIENTS) /\ STATE_LOCK = {}) =>
          /\ Len(out'[t]) >= 2
          /\ IsGameStart(out'[t][2], Get(CLIENTS, b).websocket, b, g, out[t][1].client, b)

\* C5: a lobby client that creates a session adds exactly one entry, naming
\* it, to the open-session list; when another lobby client joins the
\* session the entry is removed, the session is active with the creator on
\* X, the joiner on O and X to move, and game_start with that state is sent
\* to the creator and then to the joiner.
C5_CreateThenJoin ==
    [][\A t \in Conns : CreateEffect(t) /\ JoinEffect(t) /\ JoinSecondSend(t)]_vars

\* The handler of a join has returned after it sent game_start to the two
\* participants on their two connections.
C5_Witness ==
    \E t \in Conns :
       /\ pc[t] = "returned" /\ req[t].action = "join_game"
       /\ Len(out[t]) >= 2
       /\ out[t][1].msg.action = "game_start" /\ out[t][1].ok
       /\ out[t][2].msg.action = "game_start" /\ out[t][2].ok
       /\ out[t][1].to # out[t][2].to
       /\ AVAILABLE_GAMES = <<>>

\* Connection t receives a valid register for a client that is registered
\* with another connection: the record's connection becomes t, and the
\* record's session, the sessions and the open-session set stay as they are.
Rebinds(t) ==
    LET u == Speaker(req'[t], client_uuid[t]) IN
    (pc[t] \in {"recv0", "recv"} /\ req'[t].action = "register"
       /\ Truthy(NameOf(req'[t]))
       /\ u \in Keys(CLIENTS) /\ Get(CLIENTS, u).websocket # t
       /\ STATE_LOCK = {}) =>
       /\ Keys(CLIENTS') = Keys(CLIENTS)
       /\ Get(CLIENTS', u).websocket = t
       /\ Get(CLIENTS', u).current_game = Get(CLIENTS, u).current_game
       /\ \A v \in Keys(CLIENTS) \ {u} : Get(CLIENTS', v) = Get(CLIENTS, v)
       /\ heap' = heap /\ GAMES' = GAMES /\ AVAILABLE_GAMES' = AVAILABLE_GAMES

\* Every frame task t sends for a client in this step goes to the connection
\* the client is registered with.
RoutedToRegistered(t) ==
    \A i \in (Len(out[t]) + 1)..Len(out'[t]) :
       LET e == out'[t][i] IN
       e.client # "" =>
          /\ e.client \in Keys(CLIENTS')
          /\ e.to = Get(CLIENTS', e.client).websocket

\* C3: a register for a client that is registered with another connection
\* replaces the record's connection and leaves the client's session and the
\* sessions unchanged, and every frame sent for a client goes to the
\* connection its record holds, which is the one that registered last.
C3_RegisterRebinds ==
    [][(\A t \in Conns : Rebinds(t)) /\ (\A t \in Tasks : RoutedToRegistered(t))]_vars

\* A client in a session has registered again on connection 2 and has been
\* sent rejoin_game there, while connection 1, which it used before, is
\* still open.
C3_Witness ==
    \E u \in ClientIds :
       /\ u \in Keys(CLIENTS) /\ Get(CLIENTS, u).websocket = 2
       /\ Get(CLIENTS, u).current_game \in GAMES
       /\ client_uuid[1] = u /\ pc[1] = "recv" /\ 1 \notin closed
       /\ pc[2] = "returned" /\ req[2].action = "register"
       /\ \E i \in DOMAIN out[2] : out[2][i].msg.action = "rejoin_game" /\ out[2][i].to = 2

\* The other participant of session g ("" if there is none).
Opponent(g, u) ==
    IF heap[g].players.X.uuid # u THEN heap[g].players.X.uuid ELSE heap[g].players.O.uuid
\* The display name participant u of session g holds its slot under.
SlotName(g, u) ==
    IF heap[g].players.X.uuid = u THEN heap[g].players.X.name ELSE heap[g].players.O.name

\* The connection of participant a of an active session is closed and its
\* receive loop ends: a's record is removed, the session is finished, and
\* opponent_disconnected with a's name is sent to the other participant.
LeaveEffect(t) ==
    LET a == client_uuid[t] IN
    (pc[t] = "recv" /\ t \in closed /\ Ran(t)
       /\ a \in Keys(CLIENTS) /\ Get(CLIENTS, a).websocket = t
       /\ Get(CLIENTS, a).current_game \in GAMES
       /\ heap[Get(CLIENTS, a).current_game].status = "active"
       /\ STATE_LOCK = {}) =>
       LET g == Get(CLIENTS, a).current_game
           b == Opponent(g, a)
       IN /\ a \notin Keys(CLIENTS')
          /\ heap'[g].status = "finished"
          /\ b \in Keys(CLIENTS) /\ b # a
          /\ Len(out'[t]) = 1
          /\ out'[t][1].to = Get(CLIENTS, b).websocket /\ out'[t][1].client = b
          /\ out'[t][1].msg.action = "opponent_disconnected"
          /\ out'[t][1].msg.game_id = g
          /\ out'[t][1].msg.message = SlotName(g, a)

\* The handler goes on after the notification: the session leaves the
\* directory and the open-session set, and no client is left in it.
LeaveTeardown(t) ==
    (pc[t] = "await" /\ Len(out[t]) = 1 /\ out[t][1].msg.action = "opponent_disconnected"
       /\ Ran(t) /\ STATE_LOCK = {}) =>
       LET g == out[t][1].msg.game_id IN
       /\ g \notin GAMES' /\ g \notin DOMAIN AVAILABLE_GAMES'
       /\ heap'[g].status = "finished"
       /\ \A i \in DOMAIN CLIENTS' : CLIENTS'[i].current_game # g
       /\ out[t][1].client \in Keys(CLIENTS) =>
             /\ out[t][1].client \in Keys(CLIENTS')
             /\ Get(CLIENTS', out[t][1].client).current_game = NoGame

\* C4: when the connection of participant a of an active session is lost,
\* a's record is removed, the session is marked finished and
\* opponent_disconnected naming a is sent to the other participant b; then
\* the session is removed from the directory and the open-session set and
\* b's session is cleared, so that b is in the lobby.
C4_DisconnectEndsSession ==
    [][\A t \in Conns : LeaveEffect(t) /\ LeaveTeardown(t)]_vars

\* The handler of a lost connection has returned: its opponent was notified
\* on an open connection and is in the lobby, and the session is gone.
C4_Witness ==
    \E t \in Conns :
       /\ pc[t] = "exited" /\ Len(out[t]) >= 1
       /\ out[t][1].msg.action = "opponent_disconnected" /\ out[t][1].ok
       /\ out[t][1].msg.message = "n1"
       /\ out[t][1].client \in Keys(CLIENTS)
       /\ Get(CLIENTS, out[t][1].client).current_game = NoGame
       /\ client_uuid[t] \notin Keys(CLIENTS)
       /\ GAMES = {}

(***************************************************************************)
(* The end of a game.  A (X, connection 1) and B (O, connection 2) are one *)
(* move from the end: A's next move wins (0,2) or fills the board without  *)
(* a line (2,2).  Connection 2 also carries frames of a third client, C,   *)
(* which registers there once and then asks to join a session that is not *)
(* open.                                                                   *)
(***************************************************************************)
LastMoveDraws ==
    [c \in Cells |->
        IF c \in {<<0, 0>>, <<0, 2>>, <<1, 0>>, <<2, 1>>} THEN "X"
        ELSE IF c \in {<<0, 1>>, <<1, 1>>, <<1, 2>>, <<2, 0>>} THEN "O" ELSE ""]
OverStarts ==
    {[add_player2(NewGame(1, "A", "n1"), "B", "Anonymous").game EXCEPT !.board = b] :
        b \in {FourMoves, LastMoveDraws}}
OverMoves == {<<JInt(0), JInt(2)>>, <<JInt(2), JInt(2)>>}
LobbyFrames ==
    {[F0 EXCEPT !.action = "register", !.uuid = JStr("C"), !.name = JStr("n1")],
     [F0 EXCEPT !.action = "join_game", !.uuid = JStr("C"), !.game_id = MaxGames]}

InitOver ==
    /\ CLIENTS = <<[uuid |-> "A", name |-> "n1", websocket |-> 1, current_game |-> 1],
                   [uuid |-> "B", name |-> "Anonymous", websocket |-> 2, current_game |-> 1]>>
    /\ GAMES = {1}
    /\ \E game \in OverStarts : heap = <<game>>
    /\ AVAILABLE_GAMES = <<>>
    /\ STATE_LOCK = {}
    /\ closed = {}
    /\ pc = [t \in Tasks |-> IF t = Periodic THEN "await"
                                ELSE IF t <= 2 THEN "recv" ELSE "recv0"]
    /\ todo = [t \in Tasks |-> IF t = Periodic THEN <<ISleep>> ELSE <<>>]
    /\ client_uuid = [t \in Tasks |-> IF t = 1 THEN "A" ELSE IF t = 2 THEN "B" ELSE ""]
    /\ req = [t \in Tasks |-> F0]
    /\ out = [t \in Tasks |-> <<>>]
    /\ result = [t \in Tasks |-> NoResult]
    /\ ngames = 1
    /\ nmsgs = 0
    /\ nticks = 0

NextOver ==
    \/ \E m \in OverMoves : Recv(1, MoveFrame("A", m))
    \/ \E frame \in LobbyFrames :
          /\ (frame.action = "register") = ("C" \notin Keys(CLIENTS))
          /\ Recv(2, frame)
    \/ \E t \in Conns : ConnectionLost(t)
    \/ \E t \in Conns : RecvClosed(t)
    \/ \E t \in Tasks : Resume(t)
    \/ Tick
    \/ \E t \in Tasks : Returned(t)

SpecOver == InitOver /\ [][NextOver]_vars /\ Fairness

\* The handler of connection t has had a move accepted that ended the game.
EndedByMove(t) == result[t].success /\ result[t].game_over

\* Session g is out of the directory and no client is in it.
TornDown(g) ==
    /\ g \notin GAMES
    /\ \A i \in DOMAIN CLIENTS : CLIENTS[i].current_game # g

\* C11: after a move that ends the game by a win or a tie, the session is
\* eventually removed from the directory and no participant is left in it.
C11_GameOverTornDown ==
    (\E t \in Conns : EndedByMove(t)) ~> TornDown(1)

(***************************************************************************)
(* The answer to a register.                                               *)
(***************************************************************************)
\* Task t is about to run the part of handle_register that follows the send
\* of "registered" (lines 158-181), and runs it in this step.
RegisterGoesOn(t) ==
    /\ pc[t] \in {"await", "lock"}
    /\ todo[t] # <<>>
    /\ Head(todo[t]).op = "register_tail"
    /\ todo'[t] # todo[t]

\* Client u's record is bound to a session that is in the directory.
BoundToSession(u) ==
    /\ u \in Keys(CLIENTS)
    /\ Get(CLIENTS, u).current_game \in GAMES

\* e is the rejoin_game frame for client u and session g as the session is
\* in heap.
IsRejoin(e, u, g) ==
    /\ e.msg.action = "rejoin_game" /\ e.msg.game_id = g
    /\ e.msg.board = heap[g].board
    /\ e.msg.game_state.status = heap[g].status
    /\ e.msg.game_state.turn = heap[g].turn
    /\ e.msg.game_state.players = heap[g].players
    /\ e.msg.game_state.winner = heap[g].winner
    /\ e.msg.player_piece = (IF heap[g].players.X.uuid = u THEN "X" ELSE "O")

\* C12: a register is answered with "registered" and then one more frame on
\* the registering connection: rejoin_game with the session's state and the
\* client's mark when the client's record is bound to a session that is in
\* the directory, and the list of open sessions otherwise.
C12_RegisterAnswer ==
    [][\A t \in Conns : RegisterGoesOn(t) =>
          LET u == Head(todo[t]).juuid.s IN
          /\ Len(out[t]) = 1 /\ out[t][1].msg.action = "registered"
          /\ out[t][1].msg.uuid = u /\ out[t][1].to = t
          /\ Len(out'[t]) = 2 /\ out'[t][1] = out[t][1]
          /\ out'[t][2].to = t
          /\ IF BoundToSession(u)
             THEN IsRejoin(out'[t][2], u, Get(CLIENTS, u).current_game)
             ELSE out'[t][2].msg = GamesMsg(get_available_games_list(AVAILABLE_GAMES))]_vars

(***************************************************************************)
(* Requests that are rejected.                                             *)
(***************************************************************************)
\* The registry, the directory with its sessions, and the open sessions.
ServerState == <<CLIENTS, GAMES, heap, AVAILABLE_GAMES>>

\* Task t does something in this step.
Moves(t) == pc'[t] # pc[t] \/ todo'[t] # todo[t] \/ out'[t] # out[t]

\* The frame connection t is handling is a register, and the first answer
\* to it was an error.
RegisterRejected(t) ==
    /\ req[t].action = "register"
    /\ out[t] # <<>>
    /\ out[t][1].msg.action = "error"

\* C13: the handling of a register that is rejected for its id or its name,
\* as the first frame of a connection or as a later one, changes neither the
\* registry nor the directory, the sessions or the open sessions, from the
\* receipt of the frame to the end of its handling.
C13_RejectedRegisterKeepsState ==
    [][\A t \in Conns : (RegisterRejected(t)' /\ Moves(t)) => ServerState' = ServerState]_vars

\* Connection t receives a frame that is not a register and names, with a
\* string id, a client that is not registered or is registered on another
\* connection.
FromStranger(t) ==
    /\ pc[t] = "recv" /\ pc'[t] # "recv"
    /\ req'[t].json /\ req'[t].dict /\ req'[t].action # "register"
    /\ Truthy(req'[t].uuid) /\ IsStr(req'[t].uuid)
    /\ \/ req'[t].uuid.s \notin Keys(CLIENTS)
       \/ Get(CLIENTS, req'[t].uuid.s).websocket # t

\* C14: a frame that is not a register and whose client id is unregistered,
\* or registered to another connection than the one it arrives on, is
\* answered with one error on that connection and changes nothing of the
\* registry, the directory, the sessions and the open sessions.
C14_StrangerRejected ==
    [][\A t \in Conns : (FromStranger(t) /\ STATE_LOCK = {}) =>
          /\ ServerState' = ServerState
          /\ STATE_LOCK' = {}
          /\ pc'[t] = "returned"
          /\ Len(out'[t]) = 1
          /\ out'[t][1].to = t /\ out'[t][1].msg.action = "error"]_vars

\* A move sent for a client in a session, on a connection that is not the
\* client's, has been answered with the error.
C14_Witness ==
    \E t \in Conns :
       /\ pc[t] = "returned" /\ req[t].action = "make_move"
       /\ req[t].uuid.s \in Keys(CLIENTS)
       /\ Get(CLIENTS, req[t].uuid.s).websocket # t
       /\ Get(CLIENTS, req[t].uuid.s).current_game \in GAMES
       /\ out[t] = <<[to |-> t, ok |-> TRUE, client |-> "",
                      msg |-> ErrorMsg("Client not fully registered or using an old connection.")]>>

\* Connection t receives a frame of the client registered on it, and the
\* action is not one the client's place allows: create_game, join_game or
\* list_games from a client in a session, make_move from a lobby client.
OutOfPlace(t) ==
    /\ pc[t] = "recv" /\ pc'[t] # "recv"
    /\ req'[t].json /\ req'[t].dict /\ Truthy(req'[t].uuid) /\ IsStr(req'[t].uuid)
    /\ req'[t].uuid.s \in Keys(CLIENTS)
    /\ Get(CLIENTS, req'[t].uuid.s).websocket = t
    /\ IF Get(CLIENTS, req'[t].uuid.s).current_game # NoGame
       THEN req'[t].action \in {"create_game", "join_game", "list_games"}
       ELSE req'[t].action = "make_move"

\* C15: create_game, join_game or list_games from a client that is in a
\* session, and make_move from a lobby client, are answered with one error
\* sent to that client, and the registry, the directory, the sessions with
\* their boards and the open sessions stay as they are.
C15_OutOfPlaceRejected ==
    [][\A t \in Conns : (OutOfPlace(t) /\ STATE_LOCK = {}) =>
          /\ ServerState' = ServerState
          /\ STATE_LOCK' = {}
          /\ pc'[t] = "returned"
          /\ Len(out'[t]) = 1
          /\ out'[t][1].to = t /\ out'[t][1].client = req'[t].uuid.s
          /\ out'[t][1].msg.action = "error"]_vars

\* A client that plays in a session with two participants asked to create a
\* session and has been answered with the error.
C15_Witness ==
    \E t \in Conns :
       /\ pc[t] = "returned" /\ req[t].action = "create_game"
       /\ req[t].uuid.s \in Keys(CLIENTS)
       /\ Get(CLIENTS, req[t].uuid.s).current_game \in GAMES
       /\ heap[Get(CLIENTS, req[t].uuid.s).current_game].status = "active"
       /\ Len(out[t]) = 1 /\ out[t][1].to = t
       /\ out[t][1].msg = ErrorMsg("Unknown game action.")

\* Frame f is a register that carries a client id.
RegisterWithId(f) ==
    f.json /\ f.dict /\ f.action = "register" /\ Truthy(f.uuid) /\ IsStr(f.uuid)

\* C16: when the first frame of a connection is not a register carrying a
\* client id, the server sends one error on the connection and closes it,
\* and the registry, the directory, the sessions and the open sessions are
\* unchanged.
C16_FirstFrameMustRegister ==
    [][\A t \in Conns : (pc[t] = "recv0" /\ pc'[t] # "recv0" /\ ~RegisterWithId(req'[t])) =>
          /\ ServerState' = ServerState
          /\ t \in closed'
          /\ pc'[t] = "exited"
          /\ Len(out'[t]) = 1
          /\ out'[t][1].to = t /\ out'[t][1].msg.action = "error"]_vars

(***************************************************************************)
(* Moves that are rejected.                                                *)
(***************************************************************************)
\* Connection t receives make_move from the client registered on it, which
\* is in a session of the directory.
MoveArrives(t) ==
    /\ pc[t] = "recv" /\ pc'[t] # "recv"
    /\ req'[t].json /\ req'[t].dict /\ req'[t].action = "make_move"
    /\ Truthy(req'[t].uuid) /\ IsStr(req'[t].uuid)
    /\ req'[t].uuid.s \in Keys(CLIENTS)
    /\ Get(CLIENTS, req'[t].uuid.s).websocket = t
    /\ Get(CLIENTS, req'[t].uuid.s).current_game \in GAMES

\* The reason the move of frame f by client u in session g is rejected for,
\* "" when the move is accepted.
RejectionOf(f, u, g) ==
    IF ~PyInt(f.y).ok \/ ~PyInt(f.x).ok THEN "Invalid coordinates."
    ELSE make_move(heap[g], u, PyInt(f.y).val, PyInt(f.x).val).result.reason

\* C17: a move that is rejected is answered with one move_error that carries
\* the reason and the board as it was before the attempt, sent to the client
\* that moved and to nobody else, and the sessions (board, turn, status and
\* winner) are unchanged.
C17_RejectedMoveAnswered ==
    [][\A t \in Conns :
          LET u == req'[t].uuid.s
              g == Get(CLIENTS, u).current_game
          IN (MoveArrives(t) /\ STATE_LOCK = {} /\ RejectionOf(req'[t], u, g) # "") =>
                /\ heap' = heap /\ GAMES' = GAMES /\ CLIENTS' = CLIENTS
                /\ pc'[t] = "returned"
                /\ Len(out'[t]) = 1
                /\ out'[t][1].to = t /\ out'[t][1].client = u
                /\ out'[t][1].msg.action = "move_error"
                /\ out'[t][1].msg.game_id = g
                /\ out'[t][1].msg.message = RejectionOf(req'[t], u, g)
                /\ "board" \in DOMAIN out'[t][1].msg
                /\ out'[t][1].msg.board = heap[g].board]_vars

(***************************************************************************)
(* The lock and the sends.                                                 *)
(***************************************************************************)
\* C18: no task holds STATE_LOCK while it sends or is suspended in a send:
\* a task that holds the lock at a suspension point has no send as its next
\* call.
C18_NoSendUnderLock ==
    \A t \in Tasks :
       (t \in STATE_LOCK /\ todo[t] # <<>>) =>
          Head(todo[t]).op \notin {"send_message", "send_message_to_client"}

(***************************************************************************)
(* The end of a connection that another one has replaced.                  *)
(***************************************************************************)
\* Connection t registered a client whose record now holds another
\* connection.
Superseded(t) ==
    /\ client_uuid[t] \in Keys(CLIENTS)
    /\ Get(CLIENTS, client_uuid[t]).websocket # t

\* The receive loop of connection t ends in this step because the
\* connection is closed.
Disconnects(t) ==
    /\ pc[t] = "recv" /\ t \in closed
    /\ pc'[t] # "recv" /\ req'[t] = req[t]

\* C19: when a connection that a newer registration of its client has
\* superseded disconnects, the client's record with its connection and its
\* session membership, and the sessions, are unchanged.
C19_SupersededLeavesQuietly ==
    [][\A t \in Conns : (Superseded(t) /\ Disconnects(t)) =>
          /\ CLIENTS' = CLIENTS
          /\ GAMES' = GAMES
          /\ heap' = heap]_vars

(***************************************************************************)
(* How a session ends.                                                     *)
(***************************************************************************)
\* The three cases of a session: it has a winner; its board is full and it
\* has no winner; it is not finished.
HasWinner(game) == game.winner # NoneStr
DrawnFull(game) == Full(game.board) /\ game.winner = NoneStr
Unfinished(game) == game.status # "finished"
CasesHolding(game) ==
    Cardinality({k \in 1..3 : \/ k = 1 /\ HasWinner(game)
                              \/ k = 2 /\ DrawnFull(game)
                              \/ k = 3 /\ Unfinished(game)})

\* The session is marked finished in this step and nothing else of it
\* changes: the assignment of cleanup_client, line 536.
MarkedFinished(g) ==
    /\ heap[g].status # "finished"
    /\ heap'[g] = [heap[g] EXCEPT !.status = "finished"]

\* C20 as stated: every session is in exactly one of the three cases.
C20_ExactlyOneCase == \A g \in GAMES : CasesHolding(heap[g]) = 1

\* C20: no session is in two of the three cases, a session starts in one of
\* them, and a session leaves them only when it is marked finished because
\* a participant left: it is then finished with no winner, and its board is
\* full only if it was a draw already.
C20_OneCaseUnlessAbandoned ==
    /\ \A g \in GAMES : CasesHolding(heap[g]) = 1
    /\ [](\A g \in GAMES : CasesHolding(heap[g]) <= 1)
    /\ [][\A g \in GAMES :
            (CasesHolding(heap[g]) = 1 /\ CasesHolding(heap'[g]) # 1) => MarkedFinished(g)]_vars

\* A session with two participants and marks on its board that was marked
\* finished before its end.
C20_Witness ==
    /\ heap[1].status = "finished"
    /\ heap[1].players.O # NoPlayer
    /\ Marks(heap[1].board) >= 3
    /\ CasesHolding(heap[1]) = 0

(***************************************************************************)
(* A session in play and what follows it.  A (connection 1) and B          *)
(* (connection 2) play session 1 from the empty board; either connection   *)
(* carries registers, create_game, join_game for the next session and      *)
(* moves, for either client id, and may be lost.                           *)
(***************************************************************************)
PlayFrames ==
    {[F0 EXCEPT !.action = "register", !.uuid = JStr(c), !.name = JStr("n1")] : c \in ClientIds}
    \cup {[F0 EXCEPT !.action = "create_game", !.uuid = JStr(c)] : c \in ClientIds}
    \cup {[F0 EXCEPT !.action = "join_game", !.uuid = JStr(c), !.game_id = MaxGames] :
             c \in ClientIds}
    \cup {MoveFrame(c, m) : c \in ClientIds, m \in {<<JInt(0), JInt(0)>>, <<JInt(1), JInt(0)>>}}

InitPlay == InitGame /\ heap[1].board = EmptyBoard

NextPlay ==
    \/ \E t \in Conns, frame \in PlayFrames : Recv(t, frame)
    \/ \E t \in Conns : ConnectionLost(t)
    \/ \E t \in Conns : RecvClosed(t)
    \/ \E t \in Tasks : Resume(t)
    \/ Tick
    \/ \E t \in Tasks : Returned(t)

SpecPlay == InitPlay /\ [][NextPlay]_vars

(***************************************************************************)
(* The life of a session.                                                  *)
(***************************************************************************)
\* waiting, active, finished in the order a session passes through them.
Rank(status) == CASE status = "waiting" -> 0 [] status = "active" -> 1 [] OTHER -> 2

FirstFailing(game, u, y, x) ==
    IF game.status # "active" THEN "Game is not active"
    ELSE IF u \notin {game.players.X.uuid, game.players.O.uuid} THEN "Player not in game"
    ELSE IF (game.players.X.uuid = u) # (game.turn = "X") THEN "Not your turn"
    ELSE IF y \notin 0..2 \/ x \notin 0..2 THEN "Invalid position"
    ELSE IF game.board[<<y, x>>] # "" THEN "Position already occupied"
    ELSE ""

\* C22: make_move reports the first check that fails in the order: status
\* not active, mover not a participant, not the mover's turn, coordinates
\* outside [0,3), cell not empty; and a move that fails a check leaves the
\* board, the turn, the status and the winner as they are.
C22_FirstFailingCheck ==
    \A u \in Players, y \in BoardCoords, x \in BoardCoords :
       LET mv == make_move(heap[1], u, y, x)
           why == FirstFailing(heap[1], u, y, x)
       IN /\ mv.result.reason = why
          /\ mv.result.success = (why = "")
          /\ why # "" =>
                /\ mv.game.board = heap[1].board /\ mv.game.turn = heap[1].turn
                /\ mv.game.status = heap[1].status /\ mv.game.winner = heap[1].winner

\* The last move was made out of turn on an active game with marks on its
\* board, and was rejected for that.
C22_Witness ==
    /\ heap[1].status = "active" /\ Marks(heap[1].board) >= 2
    /\ ~result[1].success /\ result[1].reason = "Not your turn"

(***************************************************************************)
(* Clients and the sessions they are in.                                   *)
(***************************************************************************)
\* The client ids in the slots of a game.
SlotIds(game) == {pl.uuid : pl \in {game.players.X, game.players.O} \ {NoPlayer}}

\* The sessions of the directory that are not finished and have u in a slot.
LiveSessionsOf(u) ==
    {g \in GAMES : heap[g].status # "finished" /\ u \in SlotIds(heap[g])}

\* Connection t receives create_game or join_game that names a client with
\* a slot in a live session.
AsksWhilePlaying(t) ==
    /\ pc[t] = "recv" /\ pc'[t] # "recv"
    /\ req'[t].json /\ req'[t].dict
    /\ req'[t].action \in {"create_game", "join_game"}
    /\ IsStr(req'[t].uuid)
    /\ LiveSessionsOf(req'[t].uuid.s) # {}

\* C23: no client id has a slot in two live sessions of the directory, and
\* a create_game or join_game for a client that has a slot in a live
\* session adds no session and fills no slot.
C23_OneSessionPerClient ==
    /\ [](\A u \in ClientIds : Cardinality(LiveSessionsOf(u)) <= 1)
    /\ [][\A t \in Conns : AsksWhilePlaying(t) =>
            /\ GAMES' = GAMES
            /\ \A g \in GAMES : heap'[g].players = heap[g].players]_vars

\* C24: a second slot that is filled is never filled again, the client that
\* fills it is bound to the session in the same step, and the two slots of
\* a session hold different client ids.
C24_SecondSlotFilledOnce ==
    /\ [](\A g \in DOMAIN heap :
             heap[g].players.O # NoPlayer => heap[g].players.O.uuid # heap[g].players.X.uuid)
    /\ [][\A g \in DOMAIN heap :
            /\ heap[g].players.O # NoPlayer => heap'[g].players.O = heap[g].players.O
            /\ (heap[g].players.O = NoPlayer /\ heap'[g].players.O # NoPlayer) =>
                  /\ heap'[g].players.O.uuid \in Keys(CLIENTS')
                  /\ Get(CLIENTS', heap'[g].players.O.uuid).current_game = g]_vars

(***************************************************************************)
(* Teardown of a session that is already gone.                             *)
(***************************************************************************)
\* Task t has cleanup_game(g) among the calls it still has to make.
CleanupPending(t, g) == \E k \in DOMAIN todo[t] : todo[t][k] = ICleanupGame(g)

\* C25: a cleanup_game for a session that is no longer in the directory
\* (the other of the two teardowns, after a final move and after a
\* disconnect, has removed it) changes nothing: no session is removed, no
\* open entry, no game object and no registry record is changed, and
\* nothing is sent.
C25_SecondCleanupChangesNothing ==
    [][\A t \in Conns, g \in GameIds :
          (CleanupPending(t, g) /\ ~CleanupPending(t, g)' /\ g \notin GAMES) =>
             /\ ServerState' = ServerState
             /\ out'[t] = out[t]]_vars

\* The handler of A's final move has returned: it sent game_over and no
\* list of open sessions, so its cleanup_game found session 1 removed by
\* the teardown that followed B's disconnect.
C25_Witness ==
    /\ pc[1] = "returned" /\ result[1].success /\ result[1].game_over
    /\ 1 \notin GAMES /\ "B" \notin Keys(CLIENTS)
    /\ out[1] # <<>>
    /\ \A k \in DOMAIN out[1] : out[1][k].msg.action = "game_over"

(***************************************************************************)
(* The game_update of an accepted move.                                    *)
(***************************************************************************)
\* The handler of connection t has accepted a move that does not end the
\* game.
MoveGoesOn(t) == req[t].action = "make_move" /\ result[t].success /\ ~result[t].game_over

\* C26: a move that is accepted and does not end the game is answered with
\* a game_update to each participant: the first one carries the board as
\* the move left it and the mark opposite to the mover's as
\* next_turn_piece, every other one carries the same board and the same
\* mark, whatever is accepted between the sends, and when the handler
\* returns each participant that is registered on an open connection has
\* been sent one.
C26_UpdateCarriesMoveBoard ==
    /\ [][\A t \in Conns :
            LET u == req'[t].uuid.s
                g == Get(CLIENTS, u).current_game
            IN (MoveArrives(t) /\ STATE_LOCK = {} /\ MoveGoesOn(t)') =>
                  /\ out'[t] # <<>>
                  /\ out'[t][1].msg.action = "game_update"
                  /\ out'[t][1].msg.game_id = g
                  /\ out'[t][1].msg.board =
                        [heap[g].board EXCEPT ![<<PyInt(req'[t].y).val, PyInt(req'[t].x).val>>] =
                                                 get_player_piece(heap[g], u)]
                  /\ out'[t][1].msg.next_turn_piece = OtherPiece(get_player_piece(heap[g], u))]_vars
    /\ [](\A t \in Conns : MoveGoesOn(t) =>
             \A k \in DOMAIN out[t] : out[t][k].msg = out[t][1].msg)
    /\ [](\A t \in Conns : (MoveGoesOn(t) /\ pc[t] = "returned" /\ out[t] # <<>>) =>
             \A u \in SlotIds(heap[out[t][1].msg.game_id]) \cap Keys(CLIENTS) :
                Get(CLIENTS, u).websocket \notin closed =>
                   \E k \in DOMAIN out[t] : out[t][k].client = u /\ out[t][k].ok)

(***************************************************************************)
(* The registry and the slots agree.                                       *)
(***************************************************************************)
\* C27: a record with a session id names a session of the directory in
\* which its client has a slot, and every client in a slot of a session of
\* the directory that is not finished has a record with that session's id.
C27_RecordsAndSlotsAgree ==
    /\ \A i \in DOMAIN CLIENTS :
          CLIENTS[i].current_game # NoGame =>
             /\ CLIENTS[i].current_game \in GAMES
             /\ CLIENTS[i].uuid \in SlotIds(heap[CLIENTS[i].current_game])
    /\ \A g \in GAMES : heap[g].status # "finished" =>
          \A u \in SlotIds(heap[g]) :
             u \in Keys(CLIENTS) /\ Get(CLIENTS, u).current_game = g

(***************************************************************************)
(* The records of a connection that is gone.                               *)
(***************************************************************************)
\* C28: once the task of a connection has ended (the connection is closed
\* and the cleanup of its finally block is over), no record of the registry
\* has that connection as its websocket, whichever register frame of the
\* connection the record comes from.
C28_NoRecordOnDeadConnection ==
    \A t \in Conns : pc[t] = "done" =>
       \A i \in DOMAIN CLIENTS : CLIENTS[i].websocket # t

(***************************************************************************)
(* The periodic broadcast.                                                 *)
(***************************************************************************)
\* The periodic task is in a broadcast: its sleep is over and it has not
\* gone back to sleep.
Broadcasting == Head(todo[Periodic]).op # "sleep"

\* The periodic task has finished a broadcast: every frame it sent is the
\* list of open sessions, sent to the websocket of a client's record.
BroadcastDone ==
    /\ pc[Periodic] = "returned"
    /\ \A k \in DOMAIN out[Periodic] :
          /\ out[Periodic][k].msg.action = "available_games_update"
          /\ out[Periodic][k].client \in ClientIds

\* C29: under fair scheduling the periodic task does not stop: a broadcast
\* it has begun comes to its end, with the list of open sessions sent to
\* the lobby clients, and the task goes back to its sleep.
C29_PeriodicBroadcastGoesOn == Broadcasting ~> BroadcastDone

(***************************************************************************)
(* A send to a dead connection.                                            *)
(***************************************************************************)
\* C30: a send that fails on a closed connection does not fail the
\* operation it belongs to.  When the handler of an accepted move has ended
\* and one of its sends failed, it has ended by returning, the mark it
\* placed is on the board, and every participant registered on an open
\* connection has been sent the game_update or game_over of the move.
C30_DeadRecipientSkipped ==
    \A t \in Conns :
       (/\ req[t].action = "make_move" /\ result[t].success
        /\ pc[t] \in {"returned", "exited"}
        /\ \E k \in DOMAIN out[t] : ~out[t][k].ok) =>
          LET g == out[t][1].msg.game_id
              u == req[t].uuid.s
          IN /\ pc[t] = "returned"
             /\ heap[g].board[<<PyInt(req[t].y).val, PyInt(req[t].x).val>>] =
                   get_player_piece(heap[g], u)
             /\ \A v \in SlotIds(heap[g]) \cap Keys(CLIENTS) :
                   Get(CLIENTS, v).websocket \notin closed =>
                      \E k \in DOMAIN out[t] :
                         /\ out[t][k].client = v /\ out[t][k].ok
                         /\ out[t][k].msg.action \in {"game_update", "game_over"}

\* B's move was accepted; the game_update for A failed on A's closed
\* connection and the one for B was sent after it.
C30_Witness ==
    /\ pc[2] = "returned" /\ MoveGoesOn(2)
    /\ Len(out[2]) = 2
    /\ out[2][1].client = "A" /\ ~out[2][1].ok
    /\ out[2][2].client = "B" /\ out[2][2].ok
    /\ out[2][2].msg.action = "game_update"

====
